---- MODULE Spec2Model ----
(***************************************************************************)
(* chi-agent: the D-Bus job/status controller (dbus_service.py), the       *)
(* Ollama tool-call loop (agent.py chat), the SQLite session store         *)
(* (history.py) and the tool dispatch of the MCP server (mcp_server.py).   *)
(*                                                                         *)
(* Every call of Ask or AskAsync is one "turn" t in Turns.  th[t] holds    *)
(* the locals of the thread that runs the turn (the D-Bus caller's thread  *)
(* for Ask, the daemon thread _worker for AskAsync) and its position pc.   *)
(*                                                                         *)
(* Two fields of th[t] are records of what happened, kept for the          *)
(* properties: backend, what the backend did with each request of the      *)
(* turn's chat, and stored, where each append_message of the turn put its  *)
(* message (conversation id, position).                                    *)
(*                                                                         *)
(* Spec, SpecChat, SpecTools, SpecStatus, SpecDispatch, SpecRounds,        *)
(* SpecList and SpecFair run turns; SpecStore, SpecQuery and SpecRace      *)
(* drive the session store call by call while the clock advances;          *)
(* SpecToolMessage applies the encoding of a tool message to the values a  *)
(* handler can return.                                                     *)
(***************************************************************************)
EXTENDS Integers, Sequences, FiniteSets, TLC

VARIABLES
    status,           \* ChiAgentService._status
    history,          \* ChiAgentService._history, the running message list
    lock,             \* ChiAgentService._lock: 0 = free, else the turn holding it
    idle,             \* the callbacks handed to GLib.idle_add, in order; the main
                      \* loop runs them in this order, each once: one signal each
                      \* (it runs them in SpecFair only, elsewhere idle is the log)
    th,               \* per turn: the thread's locals and position
    calls,            \* number of Ask / AskAsync calls received so far
    conversations,    \* table conversations: set of rows
    current_conv_id,  \* history._current_conv_id (0 = None)
    last_id,          \* sqlite_sequence of conversations (AUTOINCREMENT)
    collected_data,   \* table collected_data, in insertion order
    now,              \* datetime.now(), in hours; it advances in the
                      \* specifications that take Tick steps
    reply,            \* what the last call of a method other than Ask and
                      \* AskAsync returned, and which method it was
    appending         \* the frame of a call of append_message made apart from
                      \* a turn: its position and locals

ctl   == <<status, history, lock, idle, th, calls>>
store == <<conversations, current_conv_id, last_id, collected_data>>
vars  == <<status, history, lock, idle, th, calls,
           conversations, current_conv_id, last_id, collected_data, now, reply, appending>>

----------------------------------------------------------------------------
(* Bounds of the model *)

MaxTurns == 2        \* calls of Ask / AskAsync in a run of Spec
MaxToolCalls == 2    \* tool calls the backend asks for in one chat

MaxClock == 3        \* hours the clock advances in a run of SpecStore
MaxConvs == 2        \* conversations created in a run of SpecStore
MaxMessages == 2     \* messages the store holds at a time in a run of SpecStore
MaxRecords == 1      \* tool-output records the store holds at a time in SpecStore
MaxIdle == 2         \* callbacks the GLib queue holds at a time in a run of SpecFair

Turns == 1..MaxTurns

(* Program constants *)

SESSION_GAP_HOURS == 2

PreviewLen == 120

(* Inputs *)

Prompts == {"hi", "ls"}
BackendErrors == {"timeout"}
BodyErrors == {"Expecting value"}
DbErrors == {"disk I/O error"}

None == "None"

----------------------------------------------------------------------------
(* history.py *)

Row(id) == CHOOSE r \in conversations : r.id = id

HasRow(id) == \E r \in conversations : r.id = id

\* Faulty variant of GetOrCreateConversation: the table has no AUTOINCREMENT,
\* the new id is one more than the largest id in the table
GetOrCreateConversationRowid ==
    IF /\ current_conv_id # 0
       /\ HasRow(current_conv_id)
       /\ now - Row(current_conv_id).updated_at < SESSION_GAP_HOURS
    THEN <<current_conv_id, conversations, last_id>>
    ELSE LET largest == IF conversations = {} THEN 0
                        ELSE CHOOSE n \in {r.id : r \in conversations} :
                                 \A r \in conversations : r.id <= n
         IN <<largest + 1,
              conversations \cup {[id |-> largest + 1, started_at |-> now,
                                   updated_at |-> now, messages |-> <<>>]},
              largest + 1>>

\* _get_or_create_conversation: <<conv_id, conversations', last_id'>>.
\* The current conversation is reused when its row exists and
\* now - updated_at < SESSION_GAP_HOURS; otherwise a row is inserted.
GetOrCreateConversation ==
    IF /\ current_conv_id # 0
       /\ HasRow(current_conv_id)
       /\ now - Row(current_conv_id).updated_at < SESSION_GAP_HOURS
    THEN <<current_conv_id, conversations, last_id>>
    ELSE <<last_id + 1,
           conversations \cup {[id |-> last_id + 1, started_at |-> now,
                                updated_at |-> now, messages |-> <<>>]},
           last_id + 1>>

\* append_message(role, content), when no statement raises
AppendMessage(role, content) ==
    LET g == GetOrCreateConversation
        conv_id == g[1]
        row == CHOOSE r \in g[2] : r.id = conv_id
        msgs == Append(row.messages, [role |-> role, content |-> content, at |-> now])
    IN /\ conversations' = (g[2] \ {row}) \cup
                             {[row EXCEPT !.messages = msgs, !.updated_at = now]}
       /\ current_conv_id' = conv_id
       /\ last_id' = g[3]
       /\ UNCHANGED collected_data

\* The number of messages in the rows of a table
RECURSIVE StoredMessages(_)
StoredMessages(rows) ==
    IF rows = {} THEN 0
    ELSE LET r == CHOOSE x \in rows : TRUE
         IN Len(r.messages) + StoredMessages(rows \ {r})

\* content[:PreviewLen].  LongContent is the one content of the model that is
\* longer than PreviewLen.
Ten == "0123456789"
LongContent == Ten \o Ten \o Ten \o Ten \o Ten \o Ten \o Ten \o Ten \o Ten \o Ten
                   \o Ten \o Ten \o Ten
Truncate(content) ==
    IF Len(content) <= PreviewLen THEN content
    ELSE Ten \o Ten \o Ten \o Ten \o Ten \o Ten \o Ten \o Ten \o Ten \o Ten \o Ten \o Ten

\* The entry get_history builds for a row
HistoryEntry(r) ==
    LET user_msgs == SelectSeq(r.messages, LAMBDA m : m.role = "user")
    IN [id |-> r.id, started_at |-> r.started_at, updated_at |-> r.updated_at,
        message_count |-> Len(r.messages),
        preview |-> IF user_msgs # <<>> THEN Truncate(user_msgs[1].content)
                    ELSE "(empty)",
        messages |-> r.messages]

\* Faulty variant of SelectRecent: ORDER BY updated_at ASC
SelectOldest(limit) ==
    LET n == IF limit < 0 \/ limit > Cardinality(conversations)
             THEN Cardinality(conversations) ELSE limit
    IN {q \in [1..n -> conversations] :
          /\ \A i, k \in 1..n : i < k =>
                q[i] # q[k] /\ q[i].updated_at <= q[k].updated_at
          /\ \A r \in conversations :
                (\A i \in 1..n : q[i] # r) =>
                    \A i \in 1..n : q[i].updated_at <= r.updated_at}

\* SELECT ... ORDER BY updated_at DESC LIMIT limit: the row lists the query
\* can return.  Rows with equal updated_at come in any order; a negative
\* limit is no limit.
SelectRecent(limit) ==
    LET n == IF limit < 0 \/ limit > Cardinality(conversations)
             THEN Cardinality(conversations) ELSE limit
    IN {q \in [1..n -> conversations] :
          /\ \A i, k \in 1..n : i < k =>
                q[i] # q[k] /\ q[i].updated_at >= q[k].updated_at
          /\ \A r \in conversations :
                (\A i \in 1..n : q[i] # r) =>
                    \A i \in 1..n : q[i].updated_at >= r.updated_at}

\* get_history(limit): the lists it can return
GetHistory(limit) ==
    {[i \in 1..Len(q) |-> HistoryEntry(q[i])] : q \in SelectRecent(limit)}

\* Where the last append_message put its message
StoredAt == <<current_conv_id, Len(Row(current_conv_id).messages)>>

----------------------------------------------------------------------------
(* agent.py *)

\* JSON-representable values: a string, or an object given as its
\* <<key, string>> pairs in insertion order.
JStr(s) == [j |-> "str", v |-> s]
JObj(pairs) == [j |-> "obj", v |-> pairs]

RECURSIVE JoinPairs(_)
JoinPairs(pairs) ==
    IF pairs = <<>> THEN ""
    ELSE "\"" \o pairs[1][1] \o "\": \"" \o pairs[1][2] \o "\""
         \o (IF Len(pairs) > 1 THEN ", " ELSE "") \o JoinPairs(Tail(pairs))

\* json.dumps(value), default separators
JsonDumps(value) ==
    IF value.j = "str" THEN "\"" \o value.v \o "\""
    ELSE "{" \o JoinPairs(value.v) \o "}"

\* The values the model's JSON texts can denote
JsonValues ==
    {JStr(s) : s \in {"kitty", "up"}} \cup
    {JObj(p) : p \in {<<>>, <<<<"app", "kitty">>>>, <<<<"state", "up">>>>,
                      <<<<"status", "launched">>, <<"app", "kitty">>>>}} \cup
    {JObj(<<<<"error", m>>>>) :
        m \in {"'app'", "string indices must be integers", "Unknown tool: rm_rf",
               "Failed to launch kitty"}}

DecodeError == [j |-> "JSONDecodeError", v |-> ""]

\* json.loads(text): the value whose encoding is text, or JSONDecodeError
JsonLoads(text) ==
    IF \E v \in JsonValues : JsonDumps(v) = text
    THEN CHOOSE v \in JsonValues : JsonDumps(v) = text
    ELSE DecodeError

HasKey(obj, k) == \E i \in 1..Len(obj.v) : obj.v[i][1] = k

\* TOOL_MAP: the registered names (two of the twelve entries: one that reads
\* no argument, one that reads args["app"])
TOOL_MAP == {"get_network_status", "launch_app"}

\* What handler(fn_args) can do: return a value or raise Exception(message).
\* get_network_status() ignores its arguments; launch_app(args["app"])
\* raises KeyError / TypeError when args has no "app" / is not a mapping.
Returned(v) == [raised |-> FALSE, value |-> v]
Raised(m) == [raised |-> TRUE, message |-> m]

HandlerOutcomes(fn_name, fn_args) ==
    IF fn_name = "get_network_status"
    THEN {Returned(JObj(<<<<"state", "up">>>>))}
    ELSE IF fn_args.j = "str" THEN {Raised("string indices must be integers")}
    ELSE IF ~HasKey(fn_args, "app") THEN {Raised("'app'")}
    ELSE {Returned(JObj(<<<<"status", "launched">>, <<"app", "kitty">>>>)),
          Returned(JObj(<<<<"error", "Failed to launch kitty">>>>))}

\* Faulty variant of ResolveArgs: a text that does not decode is passed on
\* to the handler as it is
ResolveArgsKeepsText(arguments) ==
    IF arguments.j = "str"
    THEN (IF JsonLoads(arguments.v) = DecodeError THEN arguments
          ELSE JsonLoads(arguments.v))
    ELSE arguments

\* fn_args = tc["function"].get("arguments", {}); a str is decoded with
\* json.loads and becomes {} when that fails
ResolveArgs(arguments) ==
    IF arguments.j = "str"
    THEN (IF JsonLoads(arguments.v) = DecodeError THEN JObj(<<>>)
          ELSE JsonLoads(arguments.v))
    ELSE arguments

\* Faulty variant of ToolResult: the payload for an unregistered name leaves
\* the name out
ToolResultUnnamed(fn_name, outcome) ==
    IF fn_name \in TOOL_MAP
    THEN (IF outcome.raised THEN JObj(<<<<"error", outcome.message>>>>) ELSE outcome.value)
    ELSE JObj(<<<<"error", "Unknown tool">>>>)

\* The result of one tool call, given what the handler did
ToolResult(fn_name, outcome) ==
    IF fn_name \in TOOL_MAP
    THEN (IF outcome.raised THEN JObj(<<<<"error", outcome.message>>>>) ELSE outcome.value)
    ELSE JObj(<<<<"error", "Unknown tool: " \o fn_name>>>>)

\* The tool message appended for a result
ToolMessage(result) ==
    [role |-> "tool",
     content |-> IF result.j = "str" THEN result.v ELSE JsonDumps(result)]

UserMessage(prompt) == [role |-> "user", content |-> prompt]

----------------------------------------------------------------------------
(* mcp_server.py *)

\* The names of call_tool's dispatch table that stand for the two tools of
\* TOOL_MAP above
McpDispatch == {"chi_get_network_status", "chi_launch_app"}

\* The tool function behind a name of the dispatch table
McpTool(name) ==
    IF name = "chi_get_network_status" THEN "get_network_status" ELSE "launch_app"

\* The text call_tool returns, given what the handler did
CallToolText(name, outcome) ==
    LET result == IF name \notin McpDispatch
                  THEN JObj(<<<<"error", "Unknown tool: " \o name>>>>)
                  ELSE IF outcome.raised THEN JObj(<<<<"error", outcome.message>>>>)
                  ELSE outcome.value
    IN IF result.j = "str" THEN result.v ELSE JsonDumps(result)

----------------------------------------------------------------------------
(* dbus_service.py *)

StatusChanged(s) == [signal |-> "StatusChanged", status |-> s]
ResponseReady(j, r) == [signal |-> "ResponseReady", job_id |-> j, response |-> r]

\* Faulty variant of SetStatus: the transient thinking is not announced
SetStatusQuiet(s) ==
    /\ status' = s
    /\ idle' = IF s = "thinking" THEN idle ELSE Append(idle, StatusChanged(s))

\* _set_status(status)
SetStatus(s) ==
    /\ status' = s
    /\ idle' = Append(idle, StatusChanged(s))

\* str(uuid.uuid4())[:8]: the n-th token generated, distinct from the others
Uuid(n) == "job" \o ToString(n)

NoThread == [pc |-> "idle", kind |-> None, prompt |-> None, job_id |-> None,
             response |-> None, e |-> None, messages |-> <<>>, tool_calls |-> <<>>,
             requested |-> 0, ret |-> None, backend |-> <<>>, stored |-> <<>>]

\* value is <<v>> when the method returned v
NoReply == [method |-> None, args |-> <<>>, value |-> <<>>]

NoAppend == [pc |-> "idle", role |-> None, content |-> None, conv_id |-> 0]

Init ==
    /\ status = "ready"
    /\ history = <<>>
    /\ lock = 0
    /\ idle = <<>>
    /\ th = [t \in Turns |-> NoThread]
    /\ calls = 0
    /\ conversations = {}
    /\ current_conv_id = 0
    /\ last_id = 0
    /\ collected_data = <<>>
    /\ now = 0
    /\ reply = NoReply
    /\ appending = NoAppend

\* Ask(prompt) is called: the caller's thread reaches `with self._lock`
Ask(p) ==
    /\ calls < MaxTurns
    /\ calls' = calls + 1
    /\ th' = [th EXCEPT ![calls + 1] =
                 [NoThread EXCEPT !.pc = "lock", !.kind = "Ask", !.prompt = p]]
    /\ UNCHANGED <<status, history, lock, idle, store, now, reply, appending>>

\* Faulty variant of AskAsync: the caller waits for the turn lock to be free
AskAsyncWhenFree(p) ==
    /\ calls < MaxTurns
    /\ lock = 0
    /\ calls' = calls + 1
    /\ th' = [th EXCEPT ![calls + 1] =
                 [NoThread EXCEPT !.pc = "lock", !.kind = "AskAsync", !.prompt = p,
                                  !.job_id = Uuid(calls + 1), !.ret = Uuid(calls + 1)]]
    /\ UNCHANGED <<status, history, lock, idle, store, now, reply, appending>>

\* AskAsync(prompt): draws the job id, starts the thread _worker and returns
\* the job id; the worker starts at `with self._lock`
AskAsync(p) ==
    /\ calls < MaxTurns
    /\ calls' = calls + 1
    /\ th' = [th EXCEPT ![calls + 1] =
                 [NoThread EXCEPT !.pc = "lock", !.kind = "AskAsync", !.prompt = p,
                                  !.job_id = Uuid(calls + 1), !.ret = Uuid(calls + 1)]]
    /\ UNCHANGED <<status, history, lock, idle, store, now, reply, appending>>

\* Faulty variant of Acquire: the block is entered without waiting for the lock
AcquireUnguarded(t) ==
    /\ th[t].pc = "lock"
    /\ lock' = t
    /\ th' = [th EXCEPT ![t].pc = "set_thinking"]
    /\ UNCHANGED <<status, history, idle, calls, store, now, reply, appending>>

\* `with self._lock:` is entered
Acquire(t) ==
    /\ th[t].pc = "lock"
    /\ lock = 0
    /\ lock' = t
    /\ th' = [th EXCEPT ![t].pc = "set_thinking"]
    /\ UNCHANGED <<status, history, idle, calls, store, now, reply, appending>>

\* Faulty variant of SetThinking: an error status is kept when a turn starts
SetThinkingUnlessError(t) ==
    /\ th[t].pc = "set_thinking"
    /\ IF status = "error" THEN UNCHANGED <<status, idle>> ELSE SetStatus("thinking")
    /\ th' = [th EXCEPT ![t].pc = "append_user"]
    /\ UNCHANGED <<history, lock, calls, store, now, reply, appending>>

\* self._set_status("thinking")
SetThinking(t) ==
    /\ th[t].pc = "set_thinking"
    /\ SetStatus("thinking")
    /\ th' = [th EXCEPT ![t].pc = "append_user"]
    /\ UNCHANGED <<history, lock, calls, store, now, reply, appending>>

\* hist.append_message("user", prompt) returns
AppendUser(t) ==
    /\ th[t].pc = "append_user"
    /\ AppendMessage("user", th[t].prompt)
    /\ th' = [th EXCEPT ![t].pc = "chat", ![t].stored = Append(@, StoredAt')]
    /\ UNCHANGED <<status, history, lock, idle, calls, now, reply, appending>>

\* hist.append_message("user", prompt) raises (sqlite3.Error)
AppendUserRaises(t) ==
    /\ th[t].pc = "append_user"
    /\ \E e \in DbErrors : th' = [th EXCEPT ![t].pc = "except", ![t].e = e]
    /\ UNCHANGED <<status, history, lock, idle, calls, store, now, reply, appending>>

\* Faulty variant of ChatStart: the user message is appended to the list
\* given, which is the controller's
ChatStartInPlace(t) ==
    /\ th[t].pc = "chat"
    /\ th' = [th EXCEPT ![t].pc = "request", ![t].requested = 0,
                         ![t].messages = Append(history, UserMessage(th[t].prompt))]
    /\ history' = Append(history, UserMessage(th[t].prompt))
    /\ UNCHANGED <<status, lock, idle, calls, store, now, reply, appending>>

\* chat(prompt, self._history) is entered: messages = history + [user message]
ChatStart(t) ==
    /\ th[t].pc = "chat"
    /\ th' = [th EXCEPT ![t].pc = "request", ![t].requested = 0,
                         ![t].messages = Append(history, UserMessage(th[t].prompt))]
    /\ UNCHANGED <<status, history, lock, idle, calls, store, now, reply, appending>>

\* Faulty variant of BackendFails: the RequestException is not caught in chat
BackendFailsRaises(t) ==
    /\ th[t].pc = "request"
    /\ \E e \in BackendErrors :
          th' = [th EXCEPT ![t].pc = "except", ![t].e = e,
                           ![t].backend = Append(@, "error")]
    /\ UNCHANGED <<status, history, lock, idle, calls, store, now, reply, appending>>

\* requests.post / raise_for_status raises RequestException: chat returns
\* (error text, messages) and the caller assigns response, self._history
BackendFails(t) ==
    /\ th[t].pc = "request"
    /\ \E e \in BackendErrors :
          th' = [th EXCEPT ![t].pc = "append_asst",
                           ![t].response = "Error connecting to Ollama: " \o e,
                           ![t].backend = Append(@, "error")]
    /\ history' = th[t].messages
    /\ UNCHANGED <<status, lock, idle, calls, store, now, reply, appending>>

\* resp.json() raises (the body is not JSON): the exception leaves chat
BackendBadBody(t) ==
    /\ th[t].pc = "request"
    /\ \E e \in BodyErrors :
          th' = [th EXCEPT ![t].pc = "except", ![t].e = e,
                           ![t].backend = Append(@, "badbody")]
    /\ UNCHANGED <<status, history, lock, idle, calls, store, now, reply, appending>>

\* Faulty variant of BackendResponds: a cap of one tool round; the second message
\* ends the loop whatever it carries
BackendRespondsCapped(t, contents, tcseqs) ==
    /\ th[t].pc = "request"
    /\ \E c \in contents, tcs \in tcseqs :
          LET message == [role |-> "assistant", content |-> c, tool_calls |-> tcs]
              messages == Append(th[t].messages, message)
          IN /\ th[t].requested + Len(tcs) <= MaxToolCalls
             /\ IF tcs = <<>> \/ th[t].requested > 0
                THEN /\ th' = [th EXCEPT ![t].pc = "append_asst", ![t].response = c,
                                         ![t].messages = messages,
                                         ![t].backend = Append(@, "message")]
                     /\ history' = messages
                ELSE /\ th' = [th EXCEPT ![t].pc = "dispatch", ![t].messages = messages,
                                         ![t].tool_calls = tcs,
                                         ![t].requested = th[t].requested + Len(tcs),
                                         ![t].backend = Append(@, "message")]
                     /\ UNCHANGED history
    /\ UNCHANGED <<status, lock, idle, calls, store, now, reply, appending>>

\* The backend answers with a message.  Without tool calls chat returns
\* (content, messages) and the caller assigns response, self._history;
\* with tool calls the for loop starts.  The backend asks for at most
\* MaxToolCalls tool calls in one chat.
BackendResponds(t, contents, tcseqs) ==
    /\ th[t].pc = "request"
    /\ \E c \in contents, tcs \in tcseqs :
          LET message == [role |-> "assistant", content |-> c, tool_calls |-> tcs]
              messages == Append(th[t].messages, message)
          IN /\ th[t].requested + Len(tcs) <= MaxToolCalls
             /\ IF tcs = <<>>
                THEN /\ th' = [th EXCEPT ![t].pc = "append_asst", ![t].response = c,
                                         ![t].messages = messages,
                                         ![t].backend = Append(@, "message")]
                     /\ history' = messages
                ELSE /\ th' = [th EXCEPT ![t].pc = "dispatch", ![t].messages = messages,
                                         ![t].tool_calls = tcs,
                                         ![t].requested = th[t].requested + Len(tcs),
                                         ![t].backend = Append(@, "message")]
                     /\ UNCHANGED history
    /\ UNCHANGED <<status, lock, idle, calls, store, now, reply, appending>>

\* record_tool_data(tool, data), when it does not raise
RecordToolData(tool, data) ==
    Append(collected_data, [collected_at |-> now, tool |-> tool, data |-> JsonDumps(data)])

\* Faulty variant of Dispatch: what the handler raises leaves chat
DispatchRaising(t) ==
    /\ th[t].pc = "dispatch"
    /\ LET tc == Head(th[t].tool_calls)
           fn_args == ResolveArgs(tc.arguments)
           rest == Tail(th[t].tool_calls)
       IN \E outcome \in HandlerOutcomes(tc.name, fn_args), logged \in BOOLEAN :
            LET result == ToolResult(tc.name, outcome)
            IN IF tc.name \in TOOL_MAP /\ outcome.raised
               THEN /\ th' = [th EXCEPT ![t].pc = "except", ![t].e = outcome.message]
                    /\ UNCHANGED collected_data
               ELSE /\ collected_data' = IF logged THEN RecordToolData(tc.name, result)
                                          ELSE collected_data
                    /\ th' = [th EXCEPT ![t].messages = Append(@, ToolMessage(result)),
                                        ![t].tool_calls = rest,
                                        ![t].pc = IF rest = <<>> THEN "request"
                                                  ELSE "dispatch"]
    /\ UNCHANGED <<status, history, lock, idle, calls,
                   conversations, current_conv_id, last_id, now, reply, appending>>

\* Faulty variant of Dispatch: the calls are taken from the end of the list
DispatchReversed(t) ==
    /\ th[t].pc = "dispatch"
    /\ LET tc == th[t].tool_calls[Len(th[t].tool_calls)]
           fn_args == ResolveArgs(tc.arguments)
           rest == SubSeq(th[t].tool_calls, 1, Len(th[t].tool_calls) - 1)
       IN \E outcome \in HandlerOutcomes(tc.name, fn_args), logged \in BOOLEAN :
            LET result == ToolResult(tc.name, outcome)
            IN /\ collected_data' = IF logged THEN RecordToolData(tc.name, result)
                                     ELSE collected_data
               /\ th' = [th EXCEPT ![t].messages = Append(@, ToolMessage(result)),
                                   ![t].tool_calls = rest,
                                   ![t].pc = IF rest = <<>> THEN "request" ELSE "dispatch"]
    /\ UNCHANGED <<status, history, lock, idle, calls,
                   conversations, current_conv_id, last_id, now, reply, appending>>

\* Faulty variant of Dispatch: the prompt is added again when a round is over
DispatchReprompts(t) ==
    /\ th[t].pc = "dispatch"
    /\ LET tc == Head(th[t].tool_calls)
           fn_args == ResolveArgs(tc.arguments)
           rest == Tail(th[t].tool_calls)
       IN \E outcome \in HandlerOutcomes(tc.name, fn_args), logged \in BOOLEAN :
            LET result == ToolResult(tc.name, outcome)
                messages == Append(th[t].messages, ToolMessage(result))
            IN /\ collected_data' = IF logged THEN RecordToolData(tc.name, result)
                                     ELSE collected_data
               /\ th' = [th EXCEPT ![t].messages =
                                      IF rest = <<>>
                                      THEN Append(messages, UserMessage(th[t].prompt))
                                      ELSE messages,
                                   ![t].tool_calls = rest,
                                   ![t].pc = IF rest = <<>> THEN "request" ELSE "dispatch"]
    /\ UNCHANGED <<status, history, lock, idle, calls,
                   conversations, current_conv_id, last_id, now, reply, appending>>

\* Faulty variant of Dispatch: what record_tool_data raises leaves chat
DispatchLogRaises(t) ==
    /\ th[t].pc = "dispatch"
    /\ LET tc == Head(th[t].tool_calls)
           fn_args == ResolveArgs(tc.arguments)
           rest == Tail(th[t].tool_calls)
       IN \E outcome \in HandlerOutcomes(tc.name, fn_args), logged \in BOOLEAN :
            LET result == ToolResult(tc.name, outcome)
            IN IF logged
               THEN /\ collected_data' = RecordToolData(tc.name, result)
                    /\ th' = [th EXCEPT ![t].messages = Append(@, ToolMessage(result)),
                                        ![t].tool_calls = rest,
                                        ![t].pc = IF rest = <<>> THEN "request"
                                                  ELSE "dispatch"]
               ELSE /\ \E e \in DbErrors : th' = [th EXCEPT ![t].pc = "except", ![t].e = e]
                    /\ UNCHANGED collected_data
    /\ UNCHANGED <<status, history, lock, idle, calls,
                   conversations, current_conv_id, last_id, now, reply, appending>>

\* One iteration of `for tc in tool_calls`: resolve the arguments, call the
\* handler (ToolResult leaves the outcome aside when the name is not
\* registered), log the result (a failure of the log is swallowed), append
\* the tool message
Dispatch(t) ==
    /\ th[t].pc = "dispatch"
    /\ LET tc == Head(th[t].tool_calls)
           fn_args == ResolveArgs(tc.arguments)
           rest == Tail(th[t].tool_calls)
       IN \E outcome \in HandlerOutcomes(tc.name, fn_args), logged \in BOOLEAN :
            LET result == ToolResult(tc.name, outcome)
            IN /\ collected_data' = IF logged THEN RecordToolData(tc.name, result)
                                     ELSE collected_data
               /\ th' = [th EXCEPT ![t].messages = Append(@, ToolMessage(result)),
                                   ![t].tool_calls = rest,
                                   ![t].pc = IF rest = <<>> THEN "request" ELSE "dispatch"]
    /\ UNCHANGED <<status, history, lock, idle, calls,
                   conversations, current_conv_id, last_id, now, reply, appending>>

\* Faulty variant of AppendAsst: the assistant message is not persisted
AppendAsstSkipped(t) ==
    /\ th[t].pc = "append_asst"
    /\ th' = [th EXCEPT ![t].pc = "set_ready"]
    /\ UNCHANGED <<status, history, lock, idle, calls, store, now, reply, appending>>

\* hist.append_message("assistant", response) returns
AppendAsst(t) ==
    /\ th[t].pc = "append_asst"
    /\ AppendMessage("assistant", th[t].response)
    /\ th' = [th EXCEPT ![t].pc = "set_ready", ![t].stored = Append(@, StoredAt')]
    /\ UNCHANGED <<status, history, lock, idle, calls, now, reply, appending>>

\* hist.append_message("assistant", response) raises
AppendAsstRaises(t) ==
    /\ th[t].pc = "append_asst"
    /\ \E e \in DbErrors : th' = [th EXCEPT ![t].pc = "except", ![t].e = e]
    /\ UNCHANGED <<status, history, lock, idle, calls, store, now, reply, appending>>

\* self._set_status("ready")
SetReady(t) ==
    /\ th[t].pc = "set_ready"
    /\ SetStatus("ready")
    /\ th' = [th EXCEPT ![t].pc = "release"]
    /\ UNCHANGED <<history, lock, calls, store, now, reply, appending>>

\* Faulty variant of Except: the status is left as it is
ExceptKeepsStatus(t) ==
    /\ th[t].pc = "except"
    /\ th' = [th EXCEPT ![t].pc = "release", ![t].response = "Error: " \o th[t].e]
    /\ UNCHANGED <<status, history, lock, idle, calls, store, now, reply, appending>>

\* Faulty variant of Except: the handler falls through to self._set_status("ready")
ExceptThenReady(t) ==
    /\ th[t].pc = "except"
    /\ SetStatus("error")
    /\ th' = [th EXCEPT ![t].pc = "set_ready", ![t].response = "Error: " \o th[t].e]
    /\ UNCHANGED <<history, lock, calls, store, now, reply, appending>>

\* except Exception as e: the status becomes error and the text "Error: e"
\* is what Ask returns / what the worker keeps in response
Except(t) ==
    /\ th[t].pc = "except"
    /\ SetStatus("error")
    /\ th' = [th EXCEPT ![t].pc = "release", ![t].response = "Error: " \o th[t].e]
    /\ UNCHANGED <<history, lock, calls, store, now, reply, appending>>

\* Faulty variant of Release: the lock stays held when the turn raised
ReleaseUnlessRaised(t) ==
    /\ th[t].pc = "release"
    /\ lock' = IF th[t].e = None THEN 0 ELSE lock
    /\ th' = IF th[t].kind = "Ask"
             THEN [th EXCEPT ![t].pc = "done", ![t].ret = th[t].response]
             ELSE [th EXCEPT ![t].pc = "notify"]
    /\ UNCHANGED <<status, history, idle, calls, store, now, reply, appending>>

\* The with block is left: the lock is released; Ask returns response, the
\* worker goes on to GLib.idle_add
Release(t) ==
    /\ th[t].pc = "release"
    /\ lock' = 0
    /\ th' = IF th[t].kind = "Ask"
             THEN [th EXCEPT ![t].pc = "done", ![t].ret = th[t].response]
             ELSE [th EXCEPT ![t].pc = "notify"]
    /\ UNCHANGED <<status, history, idle, calls, store, now, reply, appending>>

\* Faulty variant of Notify: the notification is queued on every pass of a loop
NotifyAgain(t) ==
    /\ th[t].pc = "notify"
    /\ idle' = Append(idle, ResponseReady(th[t].job_id, th[t].response))
    /\ \/ th' = [th EXCEPT ![t].pc = "done"]
       \/ Len(idle) < 2 * MaxTurns /\ UNCHANGED th
    /\ UNCHANGED <<status, history, lock, calls, store, now, reply, appending>>

\* GLib.idle_add(self.ResponseReady, job_id, response); the worker ends
Notify(t) ==
    /\ th[t].pc = "notify"
    /\ idle' = Append(idle, ResponseReady(th[t].job_id, th[t].response))
    /\ th' = [th EXCEPT ![t].pc = "done"]
    /\ UNCHANGED <<status, history, lock, calls, store, now, reply, appending>>

\* A client calls Ask again: the call is served in the place of a call that
\* is over and reaches `with self._lock`
AskAgain(t, p) ==
    /\ th[t].pc = "done"
    /\ th' = [th EXCEPT ![t] = [NoThread EXCEPT !.pc = "lock", !.kind = "Ask", !.prompt = p]]
    /\ UNCHANGED <<status, history, lock, idle, calls, store, now, reply, appending>>

\* loop.run(): the GLib main loop runs the callback at the head of its queue
MainLoop ==
    /\ idle # <<>>
    /\ idle' = Tail(idle)
    /\ UNCHANGED <<status, history, lock, th, calls, store, now, reply, appending>>


\* Faulty variant of GetStatus: the status is read under the turn lock
GetStatusLocked ==
    /\ lock = 0
    /\ reply' = [method |-> "GetStatus", args |-> <<>>, value |-> <<status>>]
    /\ UNCHANGED <<ctl, store, now, appending>>

\* GetStatus(): return self._status
GetStatus ==
    /\ reply' = [method |-> "GetStatus", args |-> <<>>, value |-> <<status>>]
    /\ UNCHANGED <<ctl, store, now, appending>>

\* One hour passes
Tick ==
    /\ now < MaxClock
    /\ now' = now + 1
    /\ UNCHANGED <<ctl, store, reply, appending>>

\* append_message(role, content) is called and its first statement,
\* conv_id = _get_or_create_conversation(), returns: the row it inserted, if
\* any, is committed and is the current conversation
AppendMessageCall(role, content) ==
    /\ appending.pc = "idle"
    /\ LET g == GetOrCreateConversation
       IN /\ g[3] <= MaxConvs
          /\ StoredMessages(conversations) < MaxMessages
          /\ conversations' = g[2]
          /\ current_conv_id' = g[1]
          /\ last_id' = g[3]
          /\ appending' = [pc |-> "update", role |-> role, content |-> content,
                           conv_id |-> g[1]]
    /\ UNCHANGED <<ctl, collected_data, now, reply>>

\* Faulty variant of AppendMessageUpdate: the UPDATE sets started_at as well
AppendMessageUpdateRestarts ==
    /\ appending.pc = "update"
    /\ conversations' =
          {IF r.id = appending.conv_id
           THEN [r EXCEPT !.messages = Append(@, [role |-> appending.role,
                                                  content |-> appending.content,
                                                  at |-> now]),
                          !.updated_at = now, !.started_at = now]
           ELSE r : r \in conversations}
    /\ appending' = NoAppend
    /\ UNCHANGED <<ctl, current_conv_id, last_id, collected_data, now, reply>>

\* Faulty variant of AppendMessageUpdate: updated_at is left as it was
AppendMessageUpdateStale ==
    /\ appending.pc = "update"
    /\ conversations' =
          {IF r.id = appending.conv_id
           THEN [r EXCEPT !.messages = Append(@, [role |-> appending.role,
                                                  content |-> appending.content,
                                                  at |-> now])]
           ELSE r : r \in conversations}
    /\ appending' = NoAppend
    /\ UNCHANGED <<ctl, current_conv_id, last_id, collected_data, now, reply>>

\* Faulty variant of AppendMessageUpdate: the messages stored before are
\* not read, the row is left with the new message alone
AppendMessageUpdateOverwrites ==
    /\ appending.pc = "update"
    /\ conversations' =
          {IF r.id = appending.conv_id
           THEN [r EXCEPT !.messages = <<[role |-> appending.role,
                                          content |-> appending.content,
                                          at |-> now]>>,
                          !.updated_at = now]
           ELSE r : r \in conversations}
    /\ appending' = NoAppend
    /\ UNCHANGED <<ctl, current_conv_id, last_id, collected_data, now, reply>>

\* The rest of append_message: now is read again, the messages of row
\* conv_id are read (an empty list when there is no such row), the message
\* is appended and UPDATE ... WHERE id = conv_id is committed
AppendMessageUpdate ==
    /\ appending.pc = "update"
    /\ conversations' =
          {IF r.id = appending.conv_id
           THEN [r EXCEPT !.messages = Append(@, [role |-> appending.role,
                                                  content |-> appending.content,
                                                  at |-> now]),
                          !.updated_at = now]
           ELSE r : r \in conversations}
    /\ appending' = NoAppend
    /\ UNCHANGED <<ctl, current_conv_id, last_id, collected_data, now, reply>>

\* record_tool_data(tool, data), called by a tool loop
RecordToolDataCall(tool, data) ==
    /\ Len(collected_data) < MaxRecords
    /\ collected_data' = RecordToolData(tool, data)
    /\ UNCHANGED <<ctl, conversations, current_conv_id, last_id, now, reply, appending>>

\* Faulty variant of DeleteConversation: the current conversation is kept
\* as it was
DeleteConversationKeepsCurrent(conv_id) ==
    /\ conversations' = {r \in conversations : r.id # conv_id}
    /\ reply' = [method |-> "DeleteConversation", args |-> <<conv_id>>,
                 value |-> <<HasRow(conv_id)>>]
    /\ UNCHANGED <<ctl, current_conv_id, last_id, collected_data, now, appending>>

\* Faulty variant of DeleteConversation: the result is True whatever was deleted
DeleteConversationTrue(conv_id) ==
    /\ conversations' = {r \in conversations : r.id # conv_id}
    /\ current_conv_id' = IF current_conv_id = conv_id THEN 0 ELSE current_conv_id
    /\ reply' = [method |-> "DeleteConversation", args |-> <<conv_id>>, value |-> <<TRUE>>]
    /\ UNCHANGED <<ctl, last_id, collected_data, now, appending>>

\* DeleteConversation(conv_id) -> hist.delete_conversation(conv_id): the
\* row is deleted, the current conversation is forgotten when it is the one
\* deleted, and the result is whether a row was deleted
DeleteConversation(conv_id) ==
    /\ conversations' = {r \in conversations : r.id # conv_id}
    /\ current_conv_id' = IF current_conv_id = conv_id THEN 0 ELSE current_conv_id
    /\ reply' = [method |-> "DeleteConversation", args |-> <<conv_id>>,
                 value |-> <<HasRow(conv_id)>>]
    /\ UNCHANGED <<ctl, last_id, collected_data, now, appending>>

\* DeleteConversation(conv_id) when the DELETE statement raises
\* (sqlite3.Error): the exception is logged and the result is False
DeleteConversationRaises(conv_id) ==
    /\ reply' = [method |-> "DeleteConversation", args |-> <<conv_id>>, value |-> <<FALSE>>]
    /\ UNCHANGED <<ctl, store, now, appending>>

\* Faulty variant of ClearAllHistory: the current conversation is not forgotten
ClearAllHistoryKeepsCurrent ==
    /\ conversations' = {}
    /\ collected_data' = <<>>
    /\ reply' = [method |-> "ClearAllHistory", args |-> <<>>, value |-> <<>>]
    /\ UNCHANGED <<ctl, current_conv_id, last_id, now, appending>>

\* Faulty variant of ClearAllHistory: the running list is emptied as well
ClearAllHistoryForgetsList ==
    /\ conversations' = {}
    /\ collected_data' = <<>>
    /\ current_conv_id' = 0
    /\ history' = <<>>
    /\ reply' = [method |-> "ClearAllHistory", args |-> <<>>, value |-> <<>>]
    /\ UNCHANGED <<status, lock, idle, th, calls, last_id, now, appending>>


\* ClearAllHistory() -> hist.clear_all_history().  DELETE leaves the
\* AUTOINCREMENT sequence of the table as it is.
ClearAllHistory ==
    /\ conversations' = {}
    /\ collected_data' = <<>>
    /\ current_conv_id' = 0
    /\ reply' = [method |-> "ClearAllHistory", args |-> <<>>, value |-> <<>>]
    /\ UNCHANGED <<ctl, last_id, now, appending>>

\* Faulty variant of ClearData: the current conversation is forgotten as well
ClearDataForgetsCurrent ==
    /\ collected_data' = <<>>
    /\ current_conv_id' = 0
    /\ reply' = [method |-> "ClearData", args |-> <<>>, value |-> <<>>]
    /\ UNCHANGED <<ctl, conversations, last_id, now, appending>>

\* ClearData() -> hist.clear_data()
ClearData ==
    /\ collected_data' = <<>>
    /\ reply' = [method |-> "ClearData", args |-> <<>>, value |-> <<>>]
    /\ UNCHANGED <<ctl, conversations, current_conv_id, last_id, now, appending>>

\* messages.append({"role": "tool", "content": ...}) for a result the
\* handler returned; the result and the content appended are kept in reply
AppendToolMessage(t, result) ==
    /\ Len(th[t].messages) < MaxToolCalls
    /\ th' = [th EXCEPT ![t].messages = Append(@, ToolMessage(result))]
    /\ reply' = [method |-> "tool_message", args |-> <<result>>,
                 value |-> <<ToolMessage(result).content>>]
    /\ UNCHANGED <<status, history, lock, idle, calls, store, now, appending>>

\* get_history(limit) is called and returns one of the lists it can return
GetHistoryCall(limit) ==
    /\ \E h \in GetHistory(limit) :
          reply' = [method |-> "get_history", args |-> <<limit>>, value |-> <<h>>]
    /\ UNCHANGED <<ctl, store, now, appending>>

\* call_tool(name, arguments) of the MCP server, a process of its own
CallTool(name, arguments) ==
    /\ \E outcome \in HandlerOutcomes(McpTool(name), arguments) :
          reply' = [method |-> "call_tool", args |-> <<name, arguments>>,
                    value |-> <<CallToolText(name, outcome)>>]
    /\ UNCHANGED <<ctl, store, now, appending>>

----------------------------------------------------------------------------
(* Inputs of the backend *)

ToolCall(name, arguments) == [name |-> name, arguments |-> arguments]

\* Tool calls of the backend's messages: a registered tool without
\* arguments, one with its arguments as a JSON text, one with a text that is
\* not JSON, and a name that is not registered
ToolCalls ==
    {ToolCall("get_network_status", JObj(<<>>)),
     ToolCall("launch_app", JStr("{\"app\": \"kitty\"}")),
     ToolCall("launch_app", JStr("kitty")),
     ToolCall("rm_rf", JObj(<<>>))}

RECURSIVE SeqsUpTo(_, _)
SeqsUpTo(S, n) ==
    IF n = 0 THEN {<<>>}
    ELSE LET shorter == SeqsUpTo(S, n - 1)
         IN shorter \cup {Append(q, x) : q \in shorter, x \in S}

\* The steps of thread t but the tool dispatch; the backend's messages carry a content of
\* contents and a tool-call list of tcseqs
Turn(t, contents, tcseqs) ==
    \/ Acquire(t)
    \/ SetThinking(t)
    \/ AppendUser(t)
    \/ AppendUserRaises(t)
    \/ ChatStart(t)
    \/ BackendFails(t)
    \/ BackendBadBody(t)
    \/ BackendResponds(t, contents, tcseqs)
    \/ AppendAsst(t)
    \/ AppendAsstRaises(t)
    \/ SetReady(t)
    \/ Except(t)
    \/ Release(t)
    \/ Notify(t)

\* Spec: up to MaxTurns concurrent calls; the backend asks for no tool
Next ==
    \/ \E p \in Prompts : Ask(p)
    \/ \E p \in Prompts : AskAsync(p)
    \/ \E t \in Turns : Turn(t, {"done"}, {<<>>})

Spec == Init /\ [][Next]_vars

\* SpecChat: one call, whose chat runs the whole tool loop
NextChat ==
    \/ \E p \in Prompts : calls = 0 /\ Ask(p)
    \/ \E p \in Prompts : calls = 0 /\ AskAsync(p)
    \/ Turn(1, {"", "done"}, SeqsUpTo(ToolCalls, MaxToolCalls))
    \/ Dispatch(1)

SpecChat == Init /\ [][NextChat]_vars

\* Inputs of call_tool: a name of the table, a name the table lacks because
\* it has no chi_ prefix, and an unknown name; no arguments, or an app
McpNames == {"chi_get_network_status", "chi_launch_app", "launch_app", "chi_rm_rf"}
McpArguments == {JObj(<<>>), JObj(<<<<"app", "kitty">>>>)}

\* SpecTools: one call whose backend asks for a registered and for an
\* unregistered tool, and the MCP server's call_tool
NextTools ==
    \/ calls = 0 /\ Ask("hi")
    \/ calls = 0 /\ AskAsync("hi")
    \/ Turn(1, {"done"},
            SeqsUpTo({ToolCall("get_network_status", JObj(<<>>)),
                      ToolCall("rm_rf", JObj(<<>>))}, MaxToolCalls))
    \/ Dispatch(1)
    \/ \E name \in McpNames, arguments \in McpArguments : CallTool(name, arguments)

SpecTools == Init /\ [][NextTools]_vars

\* SpecStore: the session store driven call by call while the clock
\* advances; a call of append_message is over before another call begins
NextStore ==
    \/ Tick
    \/ \E role \in {"user", "assistant"} : AppendMessageCall(role, "hi")
    \/ AppendMessageUpdate
    \/ appending.pc = "idle" /\
          RecordToolDataCall("get_network_status", JObj(<<<<"state", "up">>>>))
    \/ \E conv_id \in 1..MaxConvs : appending.pc = "idle" /\ DeleteConversation(conv_id)
    \/ \E conv_id \in 1..MaxConvs :
          appending.pc = "idle" /\ DeleteConversationRaises(conv_id)
    \/ appending.pc = "idle" /\ ClearAllHistory
    \/ appending.pc = "idle" /\ ClearData

SpecStore == Init /\ [][NextStore]_vars

\* SpecQuery: append_message, begun one call at a time, with get_history,
\* clear_data and the deletion of a conversation other than the one being
\* appended to taking place at any point of it
Limits == (0 - 1)..MaxConvs

NextQuery ==
    \/ Tick
    \/ AppendMessageCall("user", "hi")
    \/ AppendMessageUpdate
    \/ \E limit \in Limits : GetHistoryCall(limit)
    \/ appending.pc = "idle" /\ RecordToolDataCall("get_network_status", JObj(<<<<"state", "up">>>>))
    \/ ClearData
    \/ \E conv_id \in 1..MaxConvs : conv_id # appending.conv_id /\ DeleteConversation(conv_id)

SpecQuery == Init /\ [][NextQuery]_vars

\* SpecToolMessage: the tool messages of one round, for the values a
\* handler can return: chat tells a str from the other values
HandlerResults == JsonValues

NextToolMessage == \E result \in HandlerResults : AppendToolMessage(1, result)

SpecToolMessage == Init /\ [][NextToolMessage]_vars

\* SpecRounds: calls of Ask with one prompt, each made when the one before
\* is over, the backend asking for a registered tool in rounds of its
\* choice, so that a later chat starts from the list an earlier one
\* returned; the session store does not fail
NoTurn == \A t \in Turns : th[t].pc \in {"idle", "done"}

RoundCalls == SeqsUpTo({ToolCall("get_network_status", JObj(<<>>))}, MaxToolCalls)

NextRounds ==
    \/ NoTurn /\ Ask("hi")
    \/ \E t \in Turns :
          \/ Acquire(t)
          \/ SetThinking(t)
          \/ AppendUser(t)
          \/ ChatStart(t)
          \/ BackendFails(t)
          \/ BackendResponds(t, {"done"}, RoundCalls)
          \/ Dispatch(t)
          \/ AppendAsst(t)
          \/ SetReady(t)
          \/ Release(t)

SpecRounds == Init /\ [][NextRounds]_vars

\* SpecDispatch: one call whose backend asks for tools that cannot be
\* dispatched as asked: a name that is not registered, arguments that do not
\* decode for a tool that reads none and for one that reads a key, and
\* decoded arguments for the latter
DispatchCalls ==
    {ToolCall("rm_rf", JObj(<<>>)),
     ToolCall("get_network_status", JStr("kitty")),
     ToolCall("launch_app", JStr("kitty")),
     ToolCall("launch_app", JStr("{\"app\": \"kitty\"}"))}

NextDispatch ==
    \/ calls = 0 /\ Ask("hi")
    \/ calls = 0 /\ AskAsync("hi")
    \/ Turn(1, {"done"}, SeqsUpTo(DispatchCalls, MaxToolCalls))
    \/ Dispatch(1)

SpecDispatch == Init /\ [][NextDispatch]_vars

\* SpecRace: append_message, begun one call at a time, with
\* DeleteConversation and ClearAllHistory called from other threads at any
\* point of it
NextRace ==
    \/ Tick
    \/ \E role \in {"user", "assistant"} : AppendMessageCall(role, "hi")
    \/ AppendMessageUpdate
    \/ \E conv_id \in 1..MaxConvs : DeleteConversation(conv_id)
    \/ ClearAllHistory

SpecRace == Init /\ [][NextRace]_vars

\* SpecFair: clients that call Ask and AskAsync, and Ask again and again,
\* while the session store fails, so that every turn ends in its except
\* clause, and the main loop that empties the queue of callbacks.  Every thread that can take a step
\* takes one in the end and the main loop keeps running (weak fairness);
\* threading.Lock promises no order among the threads that wait for it, so
\* the acquisition of the lock is not strongly fair.
TurnFair(t) ==
    \/ Acquire(t)
    \/ Len(idle) < MaxIdle /\ SetThinking(t)
    \/ AppendUserRaises(t)
    \/ Len(idle) < MaxIdle /\ Except(t)
    \/ Release(t)
    \/ Len(idle) < MaxIdle /\ Notify(t)

NextFair ==
    \/ Ask("hi")
    \/ AskAsync("hi")
    \/ \E t \in Turns : AskAgain(t, "hi")
    \/ \E t \in Turns : TurnFair(t)
    \/ MainLoop

SpecFair ==
    /\ Init
    /\ [][NextFair]_vars
    /\ \A t \in Turns : WF_vars(TurnFair(t))
    /\ WF_vars(MainLoop)

\* SpecList: calls of Ask with one prompt, each made when the one before is
\* over, answered by the backend without tool calls, while the clock
\* advances and DeleteConversation, ClearAllHistory and ClearData are called
\* at any point
NextList ==
    \/ NoTurn /\ Ask("hi")
    \/ \E t \in Turns :
          \/ Acquire(t)
          \/ SetThinking(t)
          \/ AppendUser(t)
          \/ ChatStart(t)
          \/ BackendResponds(t, {"done"}, {<<>>})
          \/ AppendAsst(t)
          \/ SetReady(t)
          \/ Release(t)
    \/ Tick
    \/ \E conv_id \in 1..MaxConvs : DeleteConversation(conv_id)
    \/ ClearAllHistory
    \/ ClearData

SpecList == Init /\ [][NextList]_vars

\* SpecStatus: the calls of Spec with one prompt, and GetStatus at any time
NextStatus ==
    \/ Ask("hi")
    \/ AskAsync("hi")
    \/ \E t \in Turns : Turn(t, {"done"}, {<<>>})
    \/ GetStatus

SpecStatus == Init /\ [][NextStatus]_vars

----------------------------------------------------------------------------
(* Properties *)

Last(q) == q[Len(q)]

\* Thread t is inside `with self._lock`
InTurn(t) ==
    th[t].pc \in {"set_thinking", "append_user", "chat", "request", "dispatch",
                  "append_asst", "set_ready", "except", "release"}

\* Thread t has left the with block: its turn is over
TurnOver(t) == th[t].pc \in {"notify", "done"}

\* A step that does what only a turn does: sets the status, writes to the
\* session store, calls chat or replaces the running message list
TurnEffect ==
    \/ status' # status
    \/ idle' # idle /\ Last(idle').signal = "StatusChanged"
    \/ <<conversations, current_conv_id, last_id>>' # <<conversations, current_conv_id, last_id>>
    \/ history' # history
    \/ \E t \in Turns : th[t].pc = "chat" /\ th'[t].pc = "request"

\* C1: at most one turn is in flight.  A thread inside the with block is the
\* holder of the lock, and every step that sets the status, appends to the
\* session store, calls chat or replaces the running list is a step of the
\* thread that holds the lock, all other threads standing still.
C1_OneTurnInFlight ==
    /\ [](\A t \in Turns : InTurn(t) => lock = t)
    /\ [][TurnEffect => /\ lock \in Turns
                        /\ lock' = lock
                        /\ InTurn(lock)
                        /\ \A u \in Turns \ {lock} : th'[u] = th[u]]_vars

\* A turn is inside chat while another thread waits for the lock
C1_Witness ==
    \E t, u \in Turns :
        t # u /\ lock = t /\ th[t].pc = "request" /\ th[u].pc = "lock"

StatusEdges ==
    {<<"ready", "thinking">>, <<"thinking", "ready">>,
     <<"thinking", "error">>, <<"error", "thinking">>}

\* C3: the status starts at ready, is always ready, thinking or error, and
\* every change of its value is ready->thinking, thinking->ready,
\* thinking->error or error->thinking.
C3_StatusMachine ==
    /\ status = "ready"
    /\ [](status \in {"ready", "thinking", "error"})
    /\ [][status' # status => <<status, status'>> \in StatusEdges]_vars

\* A turn has started after a turn that ended in error: error->thinking
C3_Witness ==
    /\ status = "thinking"
    /\ Len(idle) >= 2
    /\ idle[Len(idle) - 1] = StatusChanged("error")
    /\ Last(idle) = StatusChanged("thinking")

\* C4 (as claimed): a turn in which the backend request failed ends with
\* the status error.
C4_BackendFailureSetsError ==
    \A t \in Turns :
        (th[t].pc = "release" /\ th[t].backend # <<>> /\ Last(th[t].backend) = "error")
            => status = "error"


\* The positions in messages of the chat that appended the last user message:
\* those after that user message
ChatPart(messages) ==
    {i \in 1..Len(messages) :
        \E k \in 1..(i - 1) :
            /\ messages[k].role = "user"
            /\ \A n \in (k + 1)..Len(messages) : messages[n].role # "user"}

\* No message of the part at positions idx is a response without tool calls
AllCarryToolCalls(messages, idx) ==
    \A i \in idx : messages[i].role = "assistant" => messages[i].tool_calls # <<>>

\* C2: chat returns exactly at the first response without tool calls.  While
\* chat is looping, every response so far carried tool calls; when chat has
\* returned after a response, that response is the last message, carries no
\* tool call, its content is the returned text, and every response before
\* it in this chat carried tool calls.
C2_ReturnsAtFirstFinal ==
    \A t \in Turns :
        /\ th[t].pc \in {"request", "dispatch"}
              => AllCarryToolCalls(th[t].messages, ChatPart(th[t].messages))
        /\ (th[t].pc = "append_asst" /\ Last(th[t].backend) = "message")
              => /\ Last(history).role = "assistant"
                 /\ Last(history).tool_calls = <<>>
                 /\ th[t].response = Last(history).content
                 /\ AllCarryToolCalls(history, ChatPart(history) \ {Len(history)})

\* chat has returned the content of the third response, after two responses
\* with tool calls
C2_Witness ==
    \E t \in Turns :
        /\ th[t].pc = "append_asst"
        /\ th[t].backend = <<"message", "message", "message">>
        /\ th[t].response = Last(history).content

ConnectErrors == {"Error connecting to Ollama: " \o e : e \in BackendErrors}

\* C8: a failed backend request ends chat.  The step of the failure returns
\* an error text and the working list as it was, dispatches nothing and
\* raises nothing; no request follows it.
C8_BackendFailureEndsChat ==
    /\ [](\A t \in Turns :
            (\E i \in 1..Len(th[t].backend) : th[t].backend[i] = "error")
                => /\ \A i \in 1..(Len(th[t].backend) - 1) : th[t].backend[i] # "error"
                   /\ Last(th[t].backend) = "error"
                   /\ th[t].pc \notin {"request", "dispatch"}
                   /\ th[t].e \notin BodyErrors \cup BackendErrors
                   /\ th[t].pc = "append_asst"
                         => th[t].response \in ConnectErrors /\ history = th[t].messages)
    /\ [][\A t \in Turns :
            (th[t].pc = "request" /\ th'[t].backend = Append(th[t].backend, "error"))
                => /\ th'[t].pc = "append_asst"
                   /\ th'[t].response \in ConnectErrors
                   /\ history' = th[t].messages
                   /\ collected_data' = collected_data]_vars

\* The backend failed in the round after a tool round
C8_Witness ==
    \E t \in Turns :
        /\ th[t].pc = "append_asst"
        /\ th[t].backend = <<"message", "error">>
        /\ Last(history).role = "tool"

\* The message of the store at <<conversation id, position>>
MessageAt(at) == Row(at[1]).messages[at[2]]

Before(a, b) == a[1] < b[1] \/ (a[1] = b[1] /\ a[2] < b[2])

\* Turn t has put into the store a user message with its prompt and then an
\* assistant message with its final text
PersistedPair(t) ==
    /\ Len(th[t].stored) = 2
    /\ \A i \in 1..2 : HasRow(th[t].stored[i][1])
    /\ MessageAt(th[t].stored[1]).role = "user"
    /\ MessageAt(th[t].stored[1]).content = th[t].prompt
    /\ MessageAt(th[t].stored[2]).role = "assistant"
    /\ MessageAt(th[t].stored[2]).content = th[t].response
    /\ Before(th[t].stored[1], th[t].stored[2])

DbErrorTexts == {"Error: " \o e : e \in DbErrors}

\* C6 (as claimed): a turn in which append_message raised still ends with
\* the status and the text it has when persistence succeeds: the status is
\* not error and the text is not the text of the persistence error.
C6_PersistenceNeverInResult ==
    \A t \in Turns :
        (th[t].pc = "release" /\ th[t].e \in DbErrors)
            => status # "error" /\ th[t].response \notin DbErrorTexts

ReadyQueued(t) ==
    {i \in 1..Len(idle) :
        idle[i].signal = "ResponseReady" /\ idle[i].job_id = th[t].job_id}

\* C7: when something raised inside turn t the exception is handled in the
\* controller: at the end of the with block the status is error, the lock is
\* released after it, Ask returns "Error: " and the message, and the worker
\* of AskAsync queues ResponseReady with its job id and that text.
C7_ExceptionHandledInController ==
    \A t \in Turns :
        th[t].e # None =>
            /\ th[t].pc \in {"except", "release", "notify", "done"}
            /\ th[t].pc = "release" => status = "error" /\ lock = t
            /\ TurnOver(t) => lock # t
            /\ (th[t].pc = "done" /\ th[t].kind = "Ask")
                  => th[t].ret = "Error: " \o th[t].e
            /\ (th[t].pc = "done" /\ th[t].kind = "AskAsync")
                  => \E i \in ReadyQueued(t) :
                        idle[i].response = "Error: " \o th[t].e

\* An Ask and an AskAsync turn have both ended with an exception
C7_Witness ==
    \E t, u \in Turns :
        /\ th[t].pc = "done" /\ th[t].kind = "Ask" /\ th[t].e \in DbErrors
        /\ th[u].pc = "done" /\ th[u].kind = "AskAsync" /\ th[u].e \in BodyErrors

\* C9: AskAsync never waits for the turn lock: while calls are left it can
\* be taken in every state, and a call has its job id as soon as its worker
\* exists, whatever the worker is waiting for.
C9_AskAsyncNeverBlocks ==
    /\ calls < MaxTurns => ENABLED (\E p \in Prompts : AskAsync(p))
    /\ \A t \in Turns :
          th[t].kind = "AskAsync" => th[t].ret = th[t].job_id /\ th[t].ret # None

\* A call of AskAsync has returned while another turn is inside chat and its
\* own worker waits for the lock
C9_Witness ==
    \E t, u \in Turns :
        /\ t < u
        /\ lock = t /\ th[t].pc = "request"
        /\ th[u].kind = "AskAsync" /\ th[u].pc = "lock" /\ th[u].ret = Uuid(u)

\* C10: for an AskAsync call, ResponseReady with its job id is queued at most
\* once, it is queued exactly when the worker is done, which is after the
\* turn released the lock, and it carries the final text of that turn; no
\* other ResponseReady is queued.
C10_OneResponseReadyPerJob ==
    /\ \A t \in Turns :
          th[t].kind = "AskAsync" =>
              /\ Cardinality(ReadyQueued(t)) = IF th[t].pc = "done" THEN 1 ELSE 0
              /\ \A i \in ReadyQueued(t) :
                    /\ idle[i].response = th[t].response
                    /\ lock # t
                    /\ th[t].e = None => /\ idle[i].response = Last(th[t].messages).content
                                         \/ idle[i].response \in ConnectErrors
                    /\ th[t].e # None => idle[i].response = "Error: " \o th[t].e
    /\ \A i \in 1..Len(idle) :
          idle[i].signal = "ResponseReady"
              => \E t \in Turns : th[t].kind = "AskAsync" /\ i \in ReadyQueued(t)

\* Two AskAsync turns have finished with different texts
C10_Witness ==
    \E t, u \in Turns :
        /\ th[t].kind = "AskAsync" /\ th[t].pc = "done"
        /\ th[u].kind = "AskAsync" /\ th[u].pc = "done"
        /\ th[t].response # th[u].response

\* The payloads of the StatusChanged callbacks queued so far, in order
StatusLog ==
    LET q == SelectSeq(idle, LAMBDA c : c.signal = "StatusChanged")
    IN [i \in 1..Len(q) |-> q[i].status]

\* C11: the error status is not terminal.  The step that leaves the with
\* block of a turn that raised frees the lock with the status error; while
\* the status is error the lock is free or its holder is at one of those two
\* ends of a turn, so a waiting turn can enter; the first step of the turn
\* that entered moves the status from error to thinking; and a turn that
\* raised nothing leaves the with block with the status ready.
C11_ErrorNotTerminal ==
    /\ [][\A t \in Turns :
            (th[t].pc = "release" /\ th[t].e # None /\ th'[t].pc # "release")
                => status = "error" /\ status' = "error" /\ lock' = 0]_vars
    /\ [](status = "error" =>
            /\ lock # 0 => th[lock].pc \in {"release", "set_thinking"}
            /\ lock = 0 => \A u \in Turns : th[u].pc = "lock" => ENABLED Acquire(u))
    /\ [][\A t \in Turns :
            (status = "error" /\ th[t].pc = "set_thinking" /\ th'[t].pc # "set_thinking")
                => status' = "thinking"]_vars
    /\ [][\A t \in Turns :
            (th[t].pc = "release" /\ th[t].e = None /\ th'[t].pc # "release")
                => status = "ready" /\ status' = "ready" /\ lock' = 0]_vars

\* A turn ended in error, the next turn started and succeeded: the status
\* went thinking, error, thinking, ready and the lock is free
C11_Witness ==
    /\ StatusLog = <<"thinking", "error", "thinking", "ready">>
    /\ lock = 0
    /\ \E t, u \in Turns : th[t].e # None /\ TurnOver(t) /\ th[u].e = None /\ TurnOver(u)

\* C12: GetStatus never waits for the turn lock.  It can be taken in every
\* state, whoever holds the lock; the value it returns is the status at that
\* moment; and the step changes nothing of the service or of the store.
C12_GetStatusNeverBlocks ==
    /\ [](ENABLED GetStatus)
    /\ [][reply' # reply =>
            /\ reply'.method = "GetStatus"
            /\ reply'.value = <<status>>
            /\ UNCHANGED <<ctl, store, now, appending>>]_vars

\* GetStatus has returned thinking while a turn is inside chat, holding the
\* lock, and another turn waits for the lock
C12_Witness ==
    /\ reply.method = "GetStatus" /\ reply.value = <<"thinking">>
    /\ \E t, u \in Turns : lock = t /\ th[t].pc = "request" /\ th[u].pc = "lock"

\* C13: every status transition queues exactly one StatusChanged with the
\* new value.  A step that changes the status appends that one callback to
\* the queue, a StatusChanged callback is appended only by a step that
\* changes the status, and so the payloads queued so far are the values the
\* status took, in order: the status is the last payload, or the initial
\* ready when nothing was queued.
C13_StatusChangedPerTransition ==
    /\ [][status' # status => idle' = Append(idle, StatusChanged(status'))]_vars
    /\ [][(idle' # idle /\ Last(idle').signal = "StatusChanged")
            => status' # status /\ idle' = Append(idle, StatusChanged(status'))]_vars
    /\ [](status = IF StatusLog = <<>> THEN "ready" ELSE Last(StatusLog))

\* Two turns are over, the first ended in ready and the second in error;
\* all four transitions were announced
C13_Witness ==
    /\ StatusLog = <<"thinking", "ready", "thinking", "error">>
    /\ status = "error"
    /\ \A t \in Turns : TurnOver(t)

\* The text of the error payload for a tool name that is not registered
UnknownToolText(name) == "{\"error\": \"Unknown tool: " \o name \o "\"}"

\* C14: dispatching a name that is not registered yields the payload
\* {"error": "Unknown tool: <name>"} and raises nothing.  In chat the step
\* for such a call appends the payload as a tool message, raises nothing
\* and goes on to the next call or, after the last one, to the next backend
\* request; call_tool of the MCP server returns the payload as its text.
C14_UnknownToolPayload ==
    /\ [][\A t \in Turns :
            (/\ th[t].pc = "dispatch"
             /\ Head(th[t].tool_calls).name \notin {"get_network_status", "launch_app"}
             /\ th'[t] # th[t])
                => /\ th'[t].messages =
                         Append(th[t].messages,
                                [role |-> "tool",
                                 content |-> UnknownToolText(Head(th[t].tool_calls).name)])
                   /\ th'[t].e = None
                   /\ th'[t].tool_calls = Tail(th[t].tool_calls)
                   /\ th'[t].pc = IF Len(th[t].tool_calls) = 1 THEN "request"
                                  ELSE "dispatch"]_vars
    /\ [](\A t \in Turns : th[t].pc = "dispatch" => ENABLED Dispatch(t))
    /\ []((reply.method = "call_tool"
            /\ reply.args[1] \notin {"chi_get_network_status", "chi_launch_app"})
              => reply.value = <<UnknownToolText(reply.args[1])>>)

\* chat has gone on to the next backend request after a round whose two
\* calls named an unregistered tool and a registered one, and call_tool was
\* asked for launch_app without its chi_ prefix
C14_Witness ==
    /\ reply.method = "call_tool" /\ reply.args[1] = "launch_app"
    /\ \E t \in Turns :
          /\ th[t].pc = "request"
          /\ Len(th[t].messages) = 4
          /\ th[t].messages[3].content = UnknownToolText("rm_rf")
          /\ th[t].messages[4].content = "{\"state\": \"up\"}"

\* The text of the error payload for a handler that raised Exception(m)
RaisedText(m) == "{\"error\": \"" \o m \o "\"}"

\* The call at the head of the round of thread t is one whose handler raises
HeadRaises(t) ==
    /\ th[t].pc = "dispatch"
    /\ Head(th[t].tool_calls).name \in {"get_network_status", "launch_app"}
    /\ \A o \in HandlerOutcomes(Head(th[t].tool_calls).name,
                                 ResolveArgs(Head(th[t].tool_calls).arguments)) : o.raised

IsPrefix(a, b) == Len(a) <= Len(b) /\ \A i \in 1..Len(a) : a[i] = b[i]

\* C15: a handler that raises ends neither the loop nor the turn.  The step
\* for such a call appends {"error": message} as a tool message and raises
\* nothing; the remaining calls of the round are dispatched after it; and
\* the working list only grows while chat loops, so the next backend
\* request is made with the error payload in it.
C15_RaisingToolIsPayload ==
    /\ [][\A t \in Turns :
            (HeadRaises(t) /\ th'[t] # th[t])
                => /\ \E o \in HandlerOutcomes(Head(th[t].tool_calls).name,
                                               ResolveArgs(Head(th[t].tool_calls).arguments)) :
                         th'[t].messages =
                            Append(th[t].messages,
                                   [role |-> "tool", content |-> RaisedText(o.message)])
                   /\ th'[t].e = None
                   /\ th'[t].tool_calls = Tail(th[t].tool_calls)
                   /\ th'[t].pc = IF Len(th[t].tool_calls) = 1 THEN "request"
                                  ELSE "dispatch"]_vars
    /\ [](\A t \in Turns : th[t].pc = "dispatch" => ENABLED Dispatch(t))
    /\ [][\A t \in Turns :
            (th[t].pc \in {"request", "dispatch"} /\ th'[t].pc # "except")
                => IsPrefix(th[t].messages, th'[t].messages)]_vars

\* chat is at its next backend request after a round of two calls: the
\* handler of the first raised KeyError, the second was dispatched, and the
\* list of the request holds both tool messages
C15_Witness ==
    \E t \in Turns :
        /\ th[t].pc = "request"
        /\ th[t].e = None
        /\ Len(th[t].messages) = 4
        /\ th[t].messages[3] = [role |-> "tool", content |-> RaisedText("'app'")]
        /\ th[t].messages[4] = [role |-> "tool", content |-> "{\"state\": \"up\"}"]

RowIn(rows, id) == CHOOSE r \in rows : r.id = id

HasRowIn(rows, id) == \E r \in rows : r.id = id

\* The step in which append_message has chosen its conversation
ChoosesConversation == appending.pc = "idle" /\ appending'.pc = "update"

\* The step in which append_message has written its message
WritesMessage == appending.pc = "update" /\ appending'.pc = "idle"

\* C16 (as claimed): append_message appends to the current conversation,
\* keeping its id, when there is a current conversation, its row exists and
\* the time since its updated_at is within SESSION_GAP_HOURS, that is, does
\* not exceed it; otherwise it creates a conversation with a new id, makes
\* it current and appends there.
C16_SessionBoundary ==
    /\ [][ChoosesConversation =>
            IF /\ current_conv_id # 0
               /\ HasRow(current_conv_id)
               /\ now - Row(current_conv_id).updated_at <= SESSION_GAP_HOURS
            THEN /\ appending'.conv_id = current_conv_id
                 /\ current_conv_id' = current_conv_id
                 /\ conversations' = conversations
            ELSE /\ ~HasRow(appending'.conv_id)
                 /\ HasRowIn(conversations', appending'.conv_id)
                 /\ current_conv_id' = appending'.conv_id]_vars
    /\ [][WritesMessage =>
            /\ HasRow(appending.conv_id)
            /\ HasRowIn(conversations', appending.conv_id)
            /\ RowIn(conversations', appending.conv_id).messages =
                  Append(Row(appending.conv_id).messages,
                         [role |-> appending.role, content |-> appending.content,
                          at |-> now])]_vars

\* C17: in every committed state each conversation's updated_at is the
\* timestamp of its most recently appended message: the last of its
\* messages, none of which is younger.  A conversation that was inserted
\* and has no message yet has the time of its insertion.
C17_UpdatedAtIsLastMessage ==
    \A r \in conversations :
        IF r.messages = <<>> THEN r.updated_at = r.started_at
        ELSE /\ r.updated_at = Last(r.messages).at
             /\ \A i \in 1..Len(r.messages) : r.messages[i].at <= r.updated_at

\* A conversation holds two messages appended an hour or more apart
C17_Witness ==
    \E r \in conversations :
        /\ Len(r.messages) = 2
        /\ r.messages[1].at < r.messages[2].at
        /\ r.updated_at = r.messages[2].at

\* C18: started_at never changes after the conversation is created: every
\* step, be it of append_message, record_tool_data, clear_data or a
\* deletion, leaves the started_at of each conversation that is still there
\* as it was, and it is never later than updated_at.
C18_StartedAtNeverChanges ==
    /\ [][\A r \in conversations : \A q \in conversations' :
            q.id = r.id => q.started_at = r.started_at]_vars
    /\ [](\A r \in conversations : r.started_at <= r.updated_at)

\* A conversation was appended to an hour or more after its creation;
\* another conversation was deleted and a tool output was recorded
C18_Witness ==
    /\ reply.method = "DeleteConversation" /\ reply.value = <<TRUE>>
    /\ collected_data # <<>>
    /\ \E r \in conversations :
          r.id # reply.args[1] /\ r.started_at < r.updated_at /\ r.messages # <<>>

\* C19: conversation ids are assigned in increasing order and never
\* reused.  No id of the table, nor the current id, is above the last id
\* assigned; the last id assigned never goes down, whatever is deleted; and
\* a row that enters the table has an id above every id assigned before,
\* which becomes the last id assigned.
C19_IdsNeverReused ==
    /\ [](/\ \A r \in conversations : r.id <= last_id
          /\ current_conv_id <= last_id
          /\ \A r, q \in conversations : r.id = q.id => r = q)
    /\ [][last_id' >= last_id]_vars
    /\ [][\A q \in conversations' :
            ~HasRow(q.id) => q.id > last_id /\ last_id' = q.id]_vars

\* The first conversation was deleted in the hour of its creation and the
\* next append_message, in the same hour, created conversation 2
C19_Witness ==
    /\ ~HasRow(1)
    /\ HasRow(2)
    /\ current_conv_id = 2
    /\ Row(2).started_at = 0

\* The conversation ids in the lists GetHistory can return for all rows
ListedIds == {h[i].id : i \in 1..Cardinality(conversations), h \in GetHistory(-1)}

\* A step in which DeleteConversation returned: its result replaced the
\* result of another call
DeleteReturned ==
    /\ reply'.method = "DeleteConversation"
    /\ reply.method = "DeleteConversation"
          => reply'.args # reply.args \/ reply'.value # reply.value

\* C20 (as claimed): DeleteConversation(id) returns true exactly when a
\* conversation with that id existed; then the conversation is no longer
\* listed by GetHistory and every other conversation and every tool-output
\* record is as before; for an id without a conversation it returns false
\* and the stored data are as before.
C20_DeleteTrueIffExisted ==
    [][DeleteReturned =>
         LET id == reply'.args[1]
         IN /\ reply'.value = <<HasRow(id)>>
            /\ HasRow(id) => /\ id \notin ListedIds'
                              /\ conversations' = conversations \ {Row(id)}
                              /\ collected_data' = collected_data
            /\ ~HasRow(id) => /\ conversations' = conversations
                               /\ collected_data' = collected_data]_vars

\* C20 (amended): DeleteConversation(id) returns true exactly when a
\* conversation with that id existed and the call removed it; then the
\* conversation is no longer listed by GetHistory and every other
\* conversation and every tool-output record is as before.  It returns false
\* for an id without a conversation and when the store raised, and then the
\* stored data are as before.
C20_DeleteTrueIffRemoved ==
    [][DeleteReturned =>
         LET id == reply'.args[1]
         IN /\ reply'.value = <<HasRow(id) /\ ~HasRowIn(conversations', id)>>
            /\ reply'.value[1] => /\ id \notin ListedIds'
                                /\ id \in ListedIds
                                /\ conversations' = conversations \ {Row(id)}
                                /\ collected_data' = collected_data
            /\ ~reply'.value[1] => /\ conversations' = conversations
                                 /\ collected_data' = collected_data]_vars

\* DeleteConversation has removed one of two conversations while a tool
\* output is on record
C20_Witness ==
    /\ reply.method = "DeleteConversation" /\ reply.value = <<TRUE>>
    /\ ~HasRow(reply.args[1])
    /\ Cardinality(conversations) = 1
    /\ last_id = 2
    /\ collected_data # <<>>

\* A step in which the method named returned, after a call of another method
MethodReturned(method) == reply'.method = method /\ reply.method # method

\* C21: after the current conversation is deleted the next append_message
\* creates a conversation with a new id and stores the message there.  A
\* deletion that removed the current conversation leaves none current; the current conversation is
\* always one of the table; with no current conversation append_message
\* inserts a row whose id is above every id assigned before, makes it
\* current and writes its message to that row; and no step brings back an
\* id that was assigned before.
C21_FreshAfterDelete ==
    /\ [][(DeleteReturned /\ reply'.value = <<TRUE>> /\ reply'.args[1] = current_conv_id) =>
            current_conv_id' = 0 /\ ~HasRowIn(conversations', reply'.args[1])]_vars
    /\ [](current_conv_id # 0 => HasRow(current_conv_id))
    /\ [][(ChoosesConversation /\ current_conv_id = 0) =>
            /\ appending'.conv_id > last_id
            /\ current_conv_id' = appending'.conv_id
            /\ conversations' = conversations \cup
                  {[id |-> appending'.conv_id, started_at |-> now, updated_at |-> now,
                    messages |-> <<>>]}]_vars
    /\ [][WritesMessage =>
            /\ appending.conv_id = current_conv_id
            /\ \A r \in conversations :
                  r.id # appending.conv_id => r \in conversations']_vars
    /\ [][\A q \in conversations' : q.id <= last_id => HasRow(q.id)]_vars

\* Conversation 1 was deleted, being current, in the hour of its creation;
\* the message appended next, in the same hour, is in conversation 2
C21_Witness ==
    /\ reply.method = "DeleteConversation" /\ reply.args = <<1>> /\ reply.value = <<TRUE>>
    /\ conversations # {}
    /\ \A r \in conversations :
          r.id = 2 /\ r.started_at = 0 /\ Len(r.messages) = 1 /\ current_conv_id = 2

\* C22: ClearData removes every tool-output record and leaves every
\* conversation, the current conversation and the last id assigned as they
\* were.
C22_ClearDataKeepsConversations ==
    [][MethodReturned("ClearData") =>
         /\ collected_data' = <<>>
         /\ conversations' = conversations
         /\ {HistoryEntry(r) : r \in conversations'} = {HistoryEntry(r) : r \in conversations}
         /\ current_conv_id' = current_conv_id
         /\ last_id' = last_id]_vars

\* ClearData has removed a record while a conversation with two messages
\* is current
C22_Witness ==
    /\ reply.method = "ClearData"
    /\ collected_data = <<>>
    /\ current_conv_id # 0
    /\ HasRow(current_conv_id)
    /\ Len(Row(current_conv_id).messages) = 2

\* C23: ClearAllHistory removes all conversations and all tool-output
\* records and leaves no current conversation; the next append_message,
\* however soon it follows, inserts a conversation with an id above every
\* id assigned before and makes it current.
C23_ClearAllResets ==
    /\ [][MethodReturned("ClearAllHistory") =>
            /\ conversations' = {}
            /\ collected_data' = <<>>
            /\ current_conv_id' = 0]_vars
    /\ [][(ChoosesConversation /\ conversations = {}) =>
            /\ appending'.conv_id > last_id
            /\ current_conv_id' = appending'.conv_id
            /\ HasRowIn(conversations', appending'.conv_id)]_vars

\* After ClearAllHistory removed conversation 1, a message appended in the
\* hour conversation 1 was last written is in conversation 2
C23_Witness ==
    /\ reply.method = "ClearAllHistory"
    /\ last_id = 2
    /\ current_conv_id = 2
    /\ conversations # {}
    /\ \A r \in conversations : r.id = 2 /\ r.started_at = 0 /\ r.messages # <<>>

Min(a, b) == IF a < b THEN a ELSE b

\* The step in which get_history returned
HistoryReturned ==
    /\ reply'.method = "get_history"
    /\ reply.method = "get_history" =>
          reply'.args # reply.args \/ reply'.value # reply.value

\* The list h holds entries of distinct stored conversations, newest
\* updated_at first, no conversation left out being more recently updated
\* than one listed, and each entry counts the messages of its conversation
RecentFirst(h) ==
    /\ \A i \in 1..Len(h) :
          /\ HasRow(h[i].id)
          /\ h[i].updated_at = Row(h[i].id).updated_at
          /\ h[i].message_count = Len(Row(h[i].id).messages)
    /\ \A i, k \in 1..Len(h) : i < k => h[i].id # h[k].id /\ h[i].updated_at >= h[k].updated_at
    /\ \A r \in conversations :
          (\A i \in 1..Len(h) : h[i].id # r.id) =>
              \A i \in 1..Len(h) : h[i].updated_at >= r.updated_at

\* Each append_message adds one to the messages of its conversation
CountsAppends ==
    WritesMessage /\ HasRow(appending.conv_id) =>
        Len(RowIn(conversations', appending.conv_id).messages) =
            Len(Row(appending.conv_id).messages) + 1

\* C24 (as claimed): get_history(limit) returns min(limit, number of stored
\* conversations) entries, the most recently updated ones, newest first,
\* each with the number of messages appended to its conversation.
C24_HistoryMinOfLimit ==
    [][HistoryReturned =>
         /\ Len(reply'.value[1]) = Min(reply'.args[1], Cardinality(conversations))
         /\ RecentFirst(reply'.value[1])]_vars

\* C24 (amended): for a limit of zero or more get_history(limit) returns
\* min(limit, number of stored conversations) entries and for a negative
\* limit one entry for every stored conversation; the entries are those of
\* the most recently updated conversations, newest first, each with the
\* number of messages appended to its conversation.
C24_HistoryMinOfNonNegativeLimit ==
    /\ [][HistoryReturned =>
            /\ Len(reply'.value[1]) =
                  IF reply'.args[1] < 0 THEN Cardinality(conversations)
                  ELSE Min(reply'.args[1], Cardinality(conversations))
            /\ RecentFirst(reply'.value[1])]_vars
    /\ [][CountsAppends]_vars

\* get_history(1) has returned the entry of conversation 2, the later
\* updated of two stored conversations, with its one message
C24_Witness ==
    /\ reply.method = "get_history" /\ reply.args = <<1>>
    /\ Cardinality(conversations) = 2
    /\ Row(1).updated_at < Row(2).updated_at
    /\ Len(reply.value[1]) = 1
    /\ reply.value[1][1].id = 2
    /\ reply.value[1][1].message_count = 1
    /\ Len(Row(2).messages) = 1

\* C25 (as claimed): a tool-output record is written only for a call
\* whose tool is registered and whose handler returned, and holds the value
\* returned; there is no record for an unknown tool or for a tool that
\* raised.
C25_RecordsOnlyReturnedValues ==
    \A i \in 1..Len(collected_data) :
        /\ collected_data[i].tool \in TOOL_MAP
        /\ \E tc \in ToolCalls :
              /\ tc.name = collected_data[i].tool
              /\ \E outcome \in HandlerOutcomes(tc.name, ResolveArgs(tc.arguments)) :
                    /\ ~outcome.raised
                    /\ collected_data[i].data = JsonDumps(outcome.value)

C27_AppendOnly ==
    /\ [][\A r \in conversations :
            HasRowIn(conversations', r.id) =>
                IsPrefix(r.messages, RowIn(conversations', r.id).messages)]_vars
    /\ [][HistoryReturned =>
            \A i \in 1..Len(reply'.value[1]) :
                /\ HasRow(reply'.value[1][i].id)
                /\ reply'.value[1][i].messages = Row(reply'.value[1][i].id).messages]_vars
    /\ [](reply.method = "get_history" =>
            \A i \in 1..Len(reply.value[1]) :
                HasRow(reply.value[1][i].id) =>
                    IsPrefix(reply.value[1][i].messages, Row(reply.value[1][i].id).messages))

\* get_history returned conversation 1 when it held its first message; a
\* second message has been written since, in a later hour, and conversation
\* 1 holds both
C27_Witness ==
    /\ reply.method = "get_history"
    /\ Len(reply.value[1]) = 1
    /\ reply.value[1][1].id = 1
    /\ Len(reply.value[1][1].messages) = 1
    /\ HasRow(1)
    /\ Len(Row(1).messages) = 2
    /\ Row(1).messages[1] = reply.value[1][1].messages[1]
    /\ Row(1).messages[2].at > reply.value[1][1].updated_at
    /\ appending.pc = "idle"

\* The contents a tool message for the call tc can have
ResultContents(tc) ==
    {ToolMessage(ToolResult(tc.name, outcome)).content :
        outcome \in HandlerOutcomes(tc.name, ResolveArgs(tc.arguments))}

\* The calls of the round of thread t that are still to be dispatched, the
\* round being that of the assistant message at index i of its list
Pending(t, i) ==
    IF th[t].pc = "dispatch"
       /\ \A n \in (i + 1)..Len(th[t].messages) : th[t].messages[n].role = "tool"
    THEN Len(th[t].tool_calls) ELSE 0

\* C28: the k tool calls of a response are dispatched in the order given
\* and their k tool messages follow the assistant message, the i-th with the
\* result of the i-th call, before the next backend request.  In every
\* state, for every assistant message of the list with k tool calls: while
\* its round is being dispatched the calls still to come are the last ones
\* of its list, in order, and the list ends with the tool messages of the
\* calls before them; once the round is over, so at the next request, the
\* message is followed by exactly k tool messages; the j-th tool message
\* has a content that the j-th call can yield.
C28_ToolMessagesInCallOrder ==
    \A t \in Turns :
        \A i \in 1..Len(th[t].messages) :
            (th[t].messages[i].role = "assistant" /\ th[t].messages[i].tool_calls # <<>>) =>
                LET ms == th[t].messages
                    tcs == ms[i].tool_calls
                    k == Len(tcs)
                    done == k - Pending(t, i)
                IN /\ done >= 0
                   /\ i + done <= Len(ms)
                   /\ \A j \in 1..done :
                         ms[i + j].role = "tool" /\ ms[i + j].content \in ResultContents(tcs[j])
                   /\ Pending(t, i) > 0 =>
                         Len(ms) = i + done /\ th[t].tool_calls = SubSeq(tcs, done + 1, k)
                   /\ i + done < Len(ms) => ms[i + done + 1].role = "assistant"
                   /\ th[t].pc = "dispatch" /\ i + done = Len(ms) => Pending(t, i) > 0

\* chat is at its next backend request after a round of two calls, a
\* registered tool and then an unregistered one: the assistant message is
\* followed by the result of the first and then the payload for the second
C28_Witness ==
    \E t \in Turns :
        /\ th[t].pc = "request"
        /\ Len(th[t].messages) = 4
        /\ th[t].messages[2].role = "assistant"
        /\ Len(th[t].messages[2].tool_calls) = 2
        /\ th[t].messages[2].tool_calls[1].name = "get_network_status"
        /\ th[t].messages[2].tool_calls[2].name = "rm_rf"
        /\ th[t].messages[3] = [role |-> "tool", content |-> "{\"state\": \"up\"}"]
        /\ th[t].messages[4] = [role |-> "tool", content |-> UnknownToolText("rm_rf")]

\* The list ms is the list before, then the user message with the prompt,
\* then assistant and tool messages only
OneUserMessage(before, prompt, ms) ==
    /\ IsPrefix(before, ms)
    /\ Len(ms) > Len(before)
    /\ ms[Len(before) + 1] = UserMessage(prompt)
    /\ \A i \in (Len(before) + 2)..Len(ms) : ms[i].role \in {"assistant", "tool"}

\* The step in which chat of thread t returns to its caller
ChatReturns(t) == th[t].pc = "request" /\ th'[t].pc = "append_asst"

\* C29: one turn adds exactly one user message to the working list,
\* however many rounds of tool calls it has.  The list chat returns is the
\* history it was given, then the user message with the prompt, then only
\* assistant and tool messages; the working list has that form at every
\* backend request and during every dispatch.
C29_OneUserMessagePerTurn ==
    /\ [][\A t \in Turns :
            ChatReturns(t) => OneUserMessage(history, th[t].prompt, history')]_vars
    /\ [](\A t \in Turns :
            th[t].pc \in {"request", "dispatch"} =>
                OneUserMessage(history, th[t].prompt, th[t].messages))

\* The second chat has returned after two rounds of one tool call: its list
\* is the four messages of the first chat, which had one round, then the
\* user message, then assistant and tool messages
C29_Witness ==
    /\ th[2].pc = "append_asst"
    /\ Len(history) = 10
    /\ history[1] = UserMessage("hi") /\ history[3].role = "tool"
    /\ history[5] = UserMessage("hi")
    /\ history[7].role = "tool" /\ history[9].role = "tool"
    /\ history[10].role = "assistant"

\* Thread t after the dispatch of the call at the head of its round, given
\* what the handler did
Dispatched(t, outcome) ==
    [th[t] EXCEPT !.messages = Append(@, ToolMessage(ToolResult(Head(th[t].tool_calls).name,
                                                                outcome))),
                  !.tool_calls = Tail(th[t].tool_calls),
                  !.pc = IF Len(th[t].tool_calls) = 1 THEN "request" ELSE "dispatch"]

\* A dispatch step of thread t
Dispatches(t) == th[t].pc = "dispatch" /\ th'[t] # th[t]

\* C30: record_tool_data raising never aborts the loop.  A dispatch step
\* that leaves no record appends the tool message with the result of the
\* call, raises nothing and goes on to the next call or to the next
\* request, exactly as a step that leaves a record does; the log can fail at
\* every call; and a turn whose log failed at every call ends with the
\* status ready and, when the backend answered, with its text.
C30_LogFailureIsSwallowed ==
    /\ [][\A t \in Turns :
            Dispatches(t) =>
                \E outcome \in HandlerOutcomes(Head(th[t].tool_calls).name,
                                                ResolveArgs(Head(th[t].tool_calls).arguments)) :
                    /\ th'[t] = Dispatched(t, outcome)
                    /\ th'[t].e = None
                    /\ collected_data' \in
                          {collected_data,
                           RecordToolData(Head(th[t].tool_calls).name,
                                          ToolResult(Head(th[t].tool_calls).name, outcome))}]_vars
    /\ [](\A t \in Turns :
            th[t].pc = "dispatch" => ENABLED (Dispatch(t) /\ collected_data' = collected_data))
    /\ [](\A t \in Turns :
            (/\ th[t].pc \in {"release", "notify", "done"}
             /\ th[t].e = None
             /\ collected_data = <<>>
             /\ \E i \in 1..Len(history) : history[i].role = "tool")
                => /\ status = "ready"
                   /\ Last(th[t].backend) = "message" =>
                         th[t].response = Last(history).content)

\* Ask has returned the backend's text after a round of two calls at both
\* of which the log failed: no record, two tool messages, status ready
C30_Witness ==
    \E t \in Turns :
        /\ th[t].pc = "done" /\ th[t].ret = "done"
        /\ status = "ready"
        /\ collected_data = <<>>
        /\ Len(history) = 5
        /\ history[3] = [role |-> "tool", content |-> "{\"state\": \"up\"}"]
        /\ history[4] = [role |-> "tool", content |-> UnknownToolText("rm_rf")]

\* The arguments of the call tc are a text that json.loads rejects
Undecodable(tc) == tc.arguments.j = "str" /\ JsonLoads(tc.arguments.v) = DecodeError

\* The contents of the tool message for the handler of name called with {}
EmptyArgsContents(name) ==
    {IF outcome.raised THEN RaisedText(outcome.message) ELSE JsonDumps(outcome.value) :
        outcome \in HandlerOutcomes(name, JObj(<<>>))}

\* C31: no tool-dispatch error reaches the caller of chat as an exception.
\* Every dispatch step appends one tool message, raises nothing and goes on
\* to the next call or to the next backend request: for a name that is not
\* registered the message is the unknown-tool payload, and for arguments
\* that do not decode the handler is called with {} and the message is what
\* it returned or the payload of what it raised.  The exception a turn ends
\* with is one of the backend's body or of the session store, never one of
\* a tool, and the status error is set only with such an exception.
C31_DispatchErrorsStayInChat ==
    /\ [][\A t \in Turns :
            Dispatches(t) =>
                LET tc == Head(th[t].tool_calls)
                IN /\ th'[t].pc = IF Len(th[t].tool_calls) = 1 THEN "request" ELSE "dispatch"
                   /\ th'[t].e = None
                   /\ th'[t].tool_calls = Tail(th[t].tool_calls)
                   /\ Len(th'[t].messages) = Len(th[t].messages) + 1
                   /\ IsPrefix(th[t].messages, th'[t].messages)
                   /\ Last(th'[t].messages).role = "tool"
                   /\ tc.name \notin {"get_network_status", "launch_app"} =>
                         Last(th'[t].messages).content = UnknownToolText(tc.name)
                   /\ (tc.name \in {"get_network_status", "launch_app"} /\ Undecodable(tc)) =>
                         Last(th'[t].messages).content \in EmptyArgsContents(tc.name)
                   /\ status' = status]_vars
    /\ [](\A t \in Turns : th[t].pc = "dispatch" => ENABLED Dispatch(t))
    /\ [](\A t \in Turns : th[t].e # None => th[t].e \in BodyErrors \cup DbErrors)
    /\ [](status = "error" => \E t \in Turns : th[t].e # None)

\* Ask has returned the backend's text with the status ready after a round
\* of two calls with arguments that do not decode: get_network_status
\* returned, launch_app called with {} raised KeyError
C31_Witness ==
    \E t \in Turns :
        /\ th[t].pc = "done" /\ th[t].ret = "done"
        /\ status = "ready"
        /\ Len(history) = 5
        /\ history[2].tool_calls = <<ToolCall("get_network_status", JStr("kitty")),
                                     ToolCall("launch_app", JStr("kitty"))>>
        /\ history[3] = [role |-> "tool", content |-> "{\"state\": \"up\"}"]
        /\ history[4] = [role |-> "tool", content |-> RaisedText("'app'")]

\* C32: while chat runs inside a turn the status is thinking, and while no
\* turn holds the lock the status is ready or error.  From the call of
\* append_message for the prompt until chat has returned or raised, the
\* status is thinking; with the lock free the status is ready or error; the
\* status thinking implies that a thread holds the lock and is inside the
\* with block.
C32_ThinkingOnlyUnderLock ==
    /\ \A t \in Turns :
          th[t].pc \in {"append_user", "chat", "request", "dispatch"} => status = "thinking"
    /\ lock = 0 => status \in {"ready", "error"}
    /\ status = "thinking" => lock \in Turns /\ InTurn(lock)

\* chat of a turn is at its backend request, the status being thinking,
\* after a turn that raised and left the status error
C32_Witness ==
    \E t, u \in Turns :
        /\ t # u
        /\ lock = t /\ th[t].pc = "request" /\ status = "thinking"
        /\ th[u].pc = "done" /\ th[u].e # None
        /\ Len(StatusLog) = 3 /\ StatusLog[2] = "error"

\* C33 (as claimed): after every turn that ends with the status ready the
\* running list ends with an assistant message without tool calls whose
\* content is the assistant text the turn has just put into the session
\* store; it does not end with a user or a tool message.
C33_RunningListEndsWithReply ==
    \A t \in Turns :
        (th[t].pc = "release" /\ th[t].e = None /\ status = "ready") =>
            /\ history # <<>>
            /\ Last(history).role = "assistant"
            /\ Last(history).tool_calls = <<>>
            /\ Last(history).content = th[t].response
            /\ Len(th[t].stored) = 2
            /\ MessageAt(th[t].stored[2]).content = Last(history).content

\* The running list is as it was when turn t began: chat was not entered,
\* or the list is what chat was given, the part of its working list before
\* the user message of the turn
ListAsBefore(t) ==
    \/ th[t].messages = <<>>
    \/ /\ Len(history) < Len(th[t].messages)
       /\ IsPrefix(history, th[t].messages)
       /\ th[t].messages[Len(history) + 1] = UserMessage(th[t].prompt)

C35_ResponseReadyInCompletionOrder ==
    \A a, b \in Turns :
        (/\ a # b
         /\ th[a].kind = "AskAsync" /\ th[b].kind = "AskAsync"
         /\ TurnOver(a)
         /\ lock = b /\ th[b].pc # "set_thinking")
            => ReadyQueued(a) # {}

\* C36 (as claimed): no append is lost to a deletion that runs at the
\* same time.  When append_message has returned its message is the last one
\* of a stored conversation, and the current conversation, if there is one,
\* is a stored conversation.
C36_NoAppendLost ==
    /\ [][WritesMessage =>
            \E r \in conversations' :
                /\ r.messages # <<>>
                /\ Last(r.messages) = [role |-> appending.role,
                                       content |-> appending.content, at |-> now]]_vars
    /\ [](current_conv_id # 0 /\ appending.pc = "idle" => HasRow(current_conv_id))

\* C37 (as claimed): every turn that waits for the lock runs and completes
\* in the end, also while other turns keep acquiring the lock.
C37_WaitingTurnCompletes ==
    \A t \in Turns : (th[t].pc = "lock") ~> (th[t].pc = "done")

\* A step that removes a conversation or the tool-output records
Removes ==
    \/ \E r \in conversations : ~HasRowIn(conversations', r.id)
    \/ reply'.method \in {"DeleteConversation", "ClearAllHistory", "ClearData"}
       /\ reply'.method # reply.method

\* A step in which append_message starts a new conversation
StartsConversation == last_id' # last_id

\* C38: the running list is independent of the session store.  A step of
\* DeleteConversation, ClearAllHistory or ClearData and a step in which
\* append_message starts a new conversation leave the running list and the
\* working list of a running chat as they were; chat is given the whole
\* running list; and the list of every backend request holds the two
\* messages of every turn completed before, then the user message.
C38_RunningListIndependentOfStore ==
    /\ [][Removes => history' = history /\ th' = th]_vars
    /\ [][StartsConversation =>
            /\ history' = history
            /\ \A t \in Turns : th'[t].messages = th[t].messages]_vars
    /\ [][\A t \in Turns :
            (th[t].pc = "chat" /\ th'[t].pc = "request") =>
                th'[t].messages = Append(history, UserMessage(th[t].prompt))]_vars
    /\ [](\A t \in Turns :
            th[t].pc = "request" =>
                Len(th[t].messages) = 2 * Cardinality({u \in Turns : th[u].pc = "done"}) + 1)

\* The second chat is at its backend request with the two messages of the
\* first turn and its own user message, after ClearAllHistory removed the
\* conversation of the first turn; its user message is in conversation 2
C38_Witness ==
    /\ th[2].pc = "request"
    /\ th[2].messages = <<UserMessage("hi"),
                          [role |-> "assistant", content |-> "done", tool_calls |-> <<>>],
                          UserMessage("hi")>>
    /\ reply.method = "ClearAllHistory"
    /\ ~HasRow(1) /\ HasRow(2)
    /\ Len(Row(2).messages) = 1

====
